---- MODULE Spec2Model ----
(***************************************************************************)
(* A model of the game session of game.py (class Game), player.py (class   *)
(* Player) and enemy.py (class Enemy).                                     *)
(*                                                                         *)
(* Units.  Times are integer milliseconds, as pygame.time.get_ticks()      *)
(* returns them.  Rectangles are pygame.Rect values: integer pixels.       *)
(* The floating-point quantities of the code are kept in fixed point:      *)
(*   - enemy velocities and accumulators in 1/100 px   (EUnit),            *)
(*   - player displacements and accumulators in 1/100000 px (PUnit),       *)
(*     in which speed * dt / 16.0 = dt * 9375 is exact.                    *)
(* Enemy.float_x / float_y are written by the code but read only by        *)
(* Enemy.update, which Game never calls; they are not part of the state.   *)
(*                                                                         *)
(* Three specifications share the variables: Spec is the session that     *)
(* Game.run drives frame by frame, SpecEntity calls the methods of Player  *)
(* and Enemy directly, SpecMove calls Game.handle_player_movement.         *)
(*                                                                         *)
(* The clock.  The code reads pygame.time.get_ticks() in player_attack     *)
(* only, and only in current_time - last_attack_time < attack_cooldown.    *)
(* The model keeps that difference, capped at attack_cooldown, as          *)
(* since_attack: Game.__init__ sets last_attack_time = 0, which makes the  *)
(* difference the clock itself, and a resolved attack makes it 0.          *)
(***************************************************************************)
EXTENDS Integers, Sequences, FiniteSets, TLC

\* ------------------------------------------------------------------ bounds
\* events delivered by pygame.event.get() to one handle_events call.
MaxEvents == 1

\* ------------------------------------------------------- program constants
SPRITE_SIZE == 32
\* game.py 746, 769: the side of a cell of the spatial hash
cell_size == 64
MAX_HEARTS == 6
HEALTH_PER_HEART == 17
player_invincible_duration == 1000
spawn_x == 100
spawn_y == 100
sprite_width == 64
rect_inset == 8
rect_min == 20
DEFAULT_HEALTH == 30
ATTACK_POWER == 5
detection_radius == 150
attack_radius == 40
enemy_invincible_duration == 200
hit_cooldown_reset == 1
knockback_duration == 100
attack_cooldown == 500
attack_range == 100
exp_per_kill == 10
spawn_count == 5
spawn_check_size == 32
\* game.py 374: the attempts of spawn_enemies
spawn_attempts == 100
max_dt == 100
level_up_max_health == 20
level_up_attack == 5
level_up_defense == 2

\* fixed-point units
EUnit == 100
PUnit == 100000
\* Enemy.speed = 0.8, in EUnit
enemy_speed == 80
\* Player.speed / 16.0 = 1.5 / 16 px per ms, in PUnit
player_speed_per_ms == 9375
\* the diagonal factor 0.7071, in 1/10000
diagonal_factor == 7071

\* ---------------------------------------------------------------- helpers
Abs(a) == IF a < 0 THEN -a ELSE a

Max(a, b) == IF a >= b THEN a ELSE b

Min(a, b) == IF a <= b THEN a ELSE b

\* Python's int(): truncation toward zero of a / b (b > 0).
TruncDiv(a, b) == IF a >= 0 THEN a \div b ELSE -((-a) \div b)

Rect(x, y, w, h) == [x |-> x, y |-> y, w |-> w, h |-> h]

\* pygame.Rect.colliderect: the interiors overlap; an empty rect never does.
colliderect(a, b) ==
    /\ a.w > 0 /\ a.h > 0 /\ b.w > 0 /\ b.h > 0
    /\ a.x < b.x + b.w /\ b.x < a.x + a.w
    /\ a.y < b.y + b.h /\ b.y < a.y + a.h

centerx(r) == r.x + r.w \div 2

centery(r) == r.y + r.h \div 2

\* the first wall of the list that the rectangle collides with, 0 if none
\* (the `for wall in self.blocked_rects: ... break` loops).
FirstCollision(r, walls) ==
    IF \E i \in 1..Len(walls) : colliderect(r, walls[i])
    THEN CHOOSE i \in 1..Len(walls) :
            /\ colliderect(r, walls[i])
            /\ \A j \in 1..(i - 1) : ~colliderect(r, walls[j])
    ELSE 0

\* the rectangle collides with no wall of the list
NoOverlap(r, walls) == FirstCollision(r, walls) = 0

\* ----------------------------------------------------------------- Player
PlayerRect(p) == Rect(p.x, p.y, SPRITE_SIZE, SPRITE_SIZE)

PlayerNew(x, y) ==
    [x |-> x, y |-> y,
     current_hearts |-> MAX_HEARTS,
     health |-> MAX_HEARTS * HEALTH_PER_HEART,
     invincible |-> FALSE, invincible_timer |-> 0,
     direction |-> "down",
     dx_accumulator |-> 0, dy_accumulator |-> 0]

\* a variant of Player._update_invincibility that ends the invincibility at
\* the first tick
Player_update_invincibility_OneTick(p, dt) ==
    IF p.invincible
    THEN [p EXCEPT !.invincible_timer = @ - dt, !.invincible = FALSE]
    ELSE p

Player_update_invincibility(p, dt) ==
    IF p.invincible
    THEN LET t == p.invincible_timer - dt
         IN  [p EXCEPT !.invincible_timer = t,
                       !.invincible = ~(t <= 0)]
    ELSE p

\* Player.take_damage: the player after the call and the value returned.
\* a variant of Player.take_damage without the floor of one heart of
\* player.py 426
Player_take_damage_NoFloor(p, amount) ==
    IF p.invincible
    THEN [player |-> p, ret |-> FALSE]
    ELSE LET heart_damage == amount \div HEALTH_PER_HEART
             hearts == Max(0, p.current_hearts - heart_damage)
         IN  [player |-> [p EXCEPT !.invincible = TRUE,
                                   !.invincible_timer = player_invincible_duration,
                                   !.current_hearts = hearts,
                                   !.health = hearts * HEALTH_PER_HEART],
              ret |-> TRUE]

Player_take_damage(p, amount) ==
    IF p.invincible
    THEN [player |-> p, ret |-> FALSE]
    ELSE LET heart_damage == Max(1, amount \div HEALTH_PER_HEART)
             hearts == Max(0, p.current_hearts - heart_damage)
         IN  [player |-> [p EXCEPT !.invincible = TRUE,
                                   !.invincible_timer = player_invincible_duration,
                                   !.current_hearts = hearts,
                                   !.health = hearts * HEALTH_PER_HEART],
              ret |-> TRUE]

Player_update_direction(p, dx, dy) ==
    IF dy < 0 THEN [p EXCEPT !.direction = "up"]
    ELSE IF dy > 0 THEN [p EXCEPT !.direction = "down"]
    ELSE IF dx > 0 THEN [p EXCEPT !.direction = "right"]
    ELSE IF dx < 0 THEN [p EXCEPT !.direction = "left"]
    ELSE p

\* ------------------------------------------------------------------ Enemy
EnemyRectSize == Max(rect_min, sprite_width - rect_inset)

EnemyRect(e) == Rect(e.x, e.y, EnemyRectSize, EnemyRectSize)

\* Enemy.__init__(x, y): the collision rectangle is centred in the sprite.
EnemyNew(x, y) ==
    [x |-> x + (sprite_width - EnemyRectSize) \div 2,
     y |-> y + (sprite_width - EnemyRectSize) \div 2,
     dx |-> 0, dy |-> 0,
     dx_accumulator |-> 0, dy_accumulator |-> 0,
     health |-> DEFAULT_HEALTH,
     invincible |-> FALSE, invincible_timer |-> 0,
     knockback_time |-> 0,
     hit_cooldown |-> 0]

\* Enemy._handle_timers: the enemy after the call (the value returned, whether
\* knockback is running, is dropped by Game.update).
Enemy_handle_timers(e, dt) ==
    LET e1 == IF e.hit_cooldown > 0
              THEN [e EXCEPT !.hit_cooldown = @ - dt] ELSE e
        e2 == IF e1.invincible
              THEN [e1 EXCEPT !.invincible_timer = @ - dt,
                              !.invincible = ~(e1.invincible_timer - dt <= 0)]
              ELSE e1
    IN  IF e2.knockback_time > 0
        THEN [e2 EXCEPT !.knockback_time = @ - dt]
        ELSE e2

\* a variant of Enemy.take_damage without the test of the invincible flag
Enemy_take_damage_Unguarded(e, amount) ==
    LET damage == Max(1, amount)
    IN  [enemy |-> [e EXCEPT !.health = @ - damage,
                             !.invincible = TRUE,
                             !.invincible_timer = enemy_invincible_duration],
         ret |-> damage]

\* Enemy.take_damage: the enemy after the call and the value returned.
Enemy_take_damage(e, amount) ==
    IF e.invincible
    THEN [enemy |-> e, ret |-> 0]
    ELSE LET damage == Max(1, amount)
         IN  [enemy |-> [e EXCEPT !.health = @ - damage,
                                  !.invincible = TRUE,
                                  !.invincible_timer = enemy_invincible_duration],
              ret |-> damage]

\* Enemy.attack: the enemy and the player after the call.  The knockback of
\* enemy.py 326-333 is added to float_x and float_y, which are not part of
\* the enemy here: the code that Game runs never reads them (only Enemy.update
\* and Enemy._handle_movement copy them to rect, and Game calls neither), and
\* handle_enemy_movement overwrites them with rect.x and rect.y (game.py 819,
\* 837).  x and y are rect.x and rect.y.
Enemy_attack(e, p) ==
    IF e.hit_cooldown <= 0
    THEN [enemy |-> [e EXCEPT !.hit_cooldown = hit_cooldown_reset,
                              !.knockback_time = knockback_duration],
          player |-> Player_take_damage(p, ATTACK_POWER).player,
          fired |-> TRUE]
    ELSE [enemy |-> e, player |-> p, fired |-> FALSE]

\* floor(s * |a| / sqrt(d2)) for d2 > 0: one component of the unit vector
\* toward the player times the speed s, truncated to the fixed-point unit.
NormScaled(a, d2, s) ==
    CHOOSE m \in 0..s :
        /\ m * m * d2 <= s * s * a * a
        /\ (m + 1) * (m + 1) * d2 > s * s * a * a

Sign(a) == IF a > 0 THEN 1 ELSE IF a < 0 THEN -1 ELSE 0

\* a variant of _handle_ai_behavior that leaves the velocity alone when the
\* player is out of the detection radius
Enemy_handle_ai_behavior_KeepChasing(e, p) ==
    LET dx == centerx(PlayerRect(p)) - centerx(EnemyRect(e))
        dy == centery(PlayerRect(p)) - centery(EnemyRect(e))
        d2 == dx * dx + dy * dy
    IN  IF d2 < attack_radius * attack_radius
        THEN IF e.hit_cooldown <= 0
             THEN Enemy_attack(e, p)
             ELSE [enemy |-> e, player |-> p, fired |-> FALSE]
        ELSE IF d2 < detection_radius * detection_radius /\ d2 > 0
        THEN [enemy |-> [e EXCEPT !.dx = Sign(dx) * NormScaled(dx, d2, enemy_speed),
                                  !.dy = Sign(dy) * NormScaled(dy, d2, enemy_speed)],
              player |-> p, fired |-> FALSE]
        ELSE [enemy |-> e, player |-> p, fired |-> FALSE]

\* Enemy._handle_ai_behavior: the enemy and the player after the call.
Enemy_handle_ai_behavior(e, p) ==
    LET dx == centerx(PlayerRect(p)) - centerx(EnemyRect(e))
        dy == centery(PlayerRect(p)) - centery(EnemyRect(e))
        d2 == dx * dx + dy * dy
    IN  IF d2 < attack_radius * attack_radius
        THEN IF e.hit_cooldown <= 0
             THEN Enemy_attack(e, p)
             ELSE [enemy |-> e, player |-> p, fired |-> FALSE]
        ELSE IF d2 < detection_radius * detection_radius
        THEN [enemy |-> IF d2 > 0
                        THEN [e EXCEPT !.dx = Sign(dx) * NormScaled(dx, d2, enemy_speed),
                                       !.dy = Sign(dy) * NormScaled(dy, d2, enemy_speed)]
                        ELSE e,
              player |-> p, fired |-> FALSE]
        ELSE [enemy |-> [e EXCEPT !.dx = 0, !.dy = 0],
              player |-> p, fired |-> FALSE]

\* ------------------------------------------ Game: motion and collisions
\* The requested displacement of one axis, in PUnit: speed * dt / 16.0 for
\* each held key of the axis.
KeyDisplacement(neg, pos, dt) ==
    (IF pos THEN player_speed_per_ms * dt ELSE 0)
    - (IF neg THEN player_speed_per_ms * dt ELSE 0)

\* d * 0.7071, truncated to PUnit.
Diagonal(d) ==
    Sign(d) * ((Abs(d) \div 10000) * diagonal_factor
               + ((Abs(d) % 10000) * diagonal_factor) \div 10000)

\* game.py 446-460: the integer step of one axis and the accumulator after it.
PlayerAxisStep(d, acc) ==
    LET d_int == TruncDiv(d, PUnit)
    IN  IF d # 0 /\ d_int = 0
        THEN LET a == acc + d
             IN  IF Abs(a) >= PUnit
                 THEN [step |-> TruncDiv(a, PUnit),
                       acc |-> a - TruncDiv(a, PUnit) * PUnit]
                 ELSE [step |-> 0, acc |-> a]
        ELSE [step |-> d_int, acc |-> acc]

\* game.py 467-481: the X axis; on a collision the player is put against the
\* edge of the first colliding wall of the list.
PlayerResolveX(p, walls, dx_int) ==
    IF dx_int = 0 THEN p
    ELSE LET test_rect == Rect(p.x + dx_int, p.y, SPRITE_SIZE, SPRITE_SIZE)
             i == FirstCollision(test_rect, walls)
         IN  IF i = 0 THEN [p EXCEPT !.x = @ + dx_int]
             ELSE IF dx_int > 0
                  THEN [p EXCEPT !.x = walls[i].x - SPRITE_SIZE]
                  ELSE [p EXCEPT !.x = walls[i].x + walls[i].w]

\* game.py 484-499: the Y axis, from the position the X axis left.
PlayerResolveY(p, walls, dy_int) ==
    IF dy_int = 0 THEN p
    ELSE LET test_rect == Rect(p.x, p.y + dy_int, SPRITE_SIZE, SPRITE_SIZE)
             i == FirstCollision(test_rect, walls)
         IN  IF i = 0 THEN [p EXCEPT !.y = @ + dy_int]
             ELSE IF dy_int > 0
                  THEN [p EXCEPT !.y = walls[i].y - SPRITE_SIZE]
                  ELSE [p EXCEPT !.y = walls[i].y + walls[i].h]

\* Game.handle_player_movement with the held keys `keys` (a subset of
\* {"LEFT", "RIGHT", "UP", "DOWN"}).
\* game.py 445-506: handle_player_movement from the point where the
\* displacement (dx, dy) of the tick, in PUnit, has been computed
resolve_player_movement(p, walls, dx, dy) ==
    LET sx == PlayerAxisStep(dx, p.dx_accumulator)
        sy == PlayerAxisStep(dy, p.dy_accumulator)
        p1 == [p EXCEPT !.dx_accumulator = sx.acc, !.dy_accumulator = sy.acc]
        p2 == PlayerResolveX(p1, walls, sx.step)
        p3 == PlayerResolveY(p2, walls, sy.step)
    IN  Player_update_direction(p3, dx, dy)

handle_player_movement(p, walls, keys, dt) ==
    LET dx0 == KeyDisplacement("LEFT" \in keys, "RIGHT" \in keys, dt)
        dy0 == KeyDisplacement("UP" \in keys, "DOWN" \in keys, dt)
        dx == IF dx0 # 0 /\ dy0 # 0 THEN Diagonal(dx0) ELSE dx0
        dy == IF dx0 # 0 /\ dy0 # 0 THEN Diagonal(dy0) ELSE dy0
    IN  resolve_player_movement(p, walls, dx, dy)

\* game.py 786-801: the integer step of one axis of an enemy and the
\* accumulator after it (v and acc in EUnit).
\* a variant of the step of an axis that drops the fraction of the velocity
EnemyAxisStep_NoAccumulator(v, acc) ==
    [step |-> TruncDiv(v, EUnit), acc |-> acc]

EnemyAxisStep(v, acc) ==
    LET v_int == TruncDiv(v, EUnit)
        a == acc + (v - v_int * EUnit)
    IN  IF Abs(a) >= EUnit
        THEN [step |-> v_int + TruncDiv(a, EUnit),
              acc |-> a - TruncDiv(a, EUnit) * EUnit]
        ELSE [step |-> v_int, acc |-> a]

\* -v * 0.8, truncated to EUnit.
\* a variant of the bounce that keeps the whole speed
Bounce_Full(v) == -v

Bounce(v) == -TruncDiv(v * 8, 10)

\* Game.handle_enemy_movement.
\* a variant of handle_enemy_movement that gives up the Y axis when the X
\* shift was blocked
handle_enemy_movement_StopOnHit(e, walls) ==
    LET sx == EnemyAxisStep(e.dx, e.dx_accumulator)
        sy == EnemyAxisStep(e.dy, e.dy_accumulator)
        e1 == [e EXCEPT !.dx_accumulator = sx.acc, !.dy_accumulator = sy.acc]
        hit == /\ sx.step # 0
               /\ FirstCollision(Rect(e1.x + sx.step, e1.y,
                                      EnemyRectSize, EnemyRectSize), walls) # 0
        e2 == IF sx.step = 0 THEN e1
              ELSE IF hit THEN [e1 EXCEPT !.dx = Bounce(e1.dx)]
                   ELSE [e1 EXCEPT !.x = @ + sx.step]
    IN  IF sy.step = 0 \/ hit THEN e2
        ELSE IF FirstCollision(Rect(e2.x, e2.y + sy.step,
                                    EnemyRectSize, EnemyRectSize), walls) # 0
             THEN [e2 EXCEPT !.dy = Bounce(e2.dy)]
             ELSE [e2 EXCEPT !.y = @ + sy.step]

handle_enemy_movement(e, walls) ==
    LET sx == EnemyAxisStep(e.dx, e.dx_accumulator)
        sy == EnemyAxisStep(e.dy, e.dy_accumulator)
        e1 == [e EXCEPT !.dx_accumulator = sx.acc, !.dy_accumulator = sy.acc]
        e2 == IF sx.step = 0 THEN e1
              ELSE IF FirstCollision(Rect(e1.x + sx.step, e1.y,
                                          EnemyRectSize, EnemyRectSize), walls) # 0
                   THEN [e1 EXCEPT !.dx = Bounce(e1.dx)]
                   ELSE [e1 EXCEPT !.x = @ + sx.step]
    IN  IF sy.step = 0 THEN e2
        ELSE IF FirstCollision(Rect(e2.x, e2.y + sy.step,
                                    EnemyRectSize, EnemyRectSize), walls) # 0
             THEN [e2 EXCEPT !.dy = Bounce(e2.dy)]
             ELSE [e2 EXCEPT !.y = @ + sy.step]

\* ------------------------------------------------------- Game: the session
\* the ids of the live enemies in the order the Group iterates them
RECURSIVE Ordered(_)
Ordered(ids) ==
    IF ids = {} THEN <<>>
    ELSE LET m == CHOOSE i \in ids : \A j \in ids : i <= j
         IN  <<m>> \o Ordered(ids \ {m})

\* game.py 186-195: the stats Game.__init__ sets
StatsNew ==
    [level |-> 1, exp |-> 0, exp_to_level |-> 100,
     health |-> 100, max_health |-> 100,
     attack |-> 10, defense |-> 5, enemies_defeated |-> 0]

level_up(stats) ==
    [stats EXCEPT !.level = @ + 1,
                  !.exp = 0,
                  !.exp_to_level = (@ * 3) \div 2,
                  !.max_health = @ + level_up_max_health,
                  !.health = stats.max_health + level_up_max_health,
                  !.attack = @ + level_up_attack,
                  !.defense = @ + level_up_defense]

\* Game.is_valid_spawn_position
is_valid_spawn_position(walls, x, y, w, h) ==
    FirstCollision(Rect(x, y, w, h), walls) = 0

\* Game.spawn_enemies(count): `found` are the points find_valid_spawn_position
\* returns, one per attempt; enemies get the ids 1, 2, ... in spawn order.
RECURSIVE SpawnLoop(_, _, _, _)
SpawnLoop(walls, count, found, group) ==
    IF Cardinality(DOMAIN group) >= count \/ found = <<>> THEN group
    ELSE LET pt == Head(found)
             id == Cardinality(DOMAIN group) + 1
         IN  IF is_valid_spawn_position(walls, pt[1], pt[2],
                                        spawn_check_size, spawn_check_size)
             THEN SpawnLoop(walls, count, Tail(found),
                            [i \in DOMAIN group \cup {id} |->
                                IF i = id THEN EnemyNew(pt[1], pt[2]) ELSE group[i]])
             ELSE SpawnLoop(walls, count, Tail(found), group)

spawn_enemies(walls, count, found) == SpawnLoop(walls, count, found, <<>>)

\* Game.__init__ at get_ticks() = ticks: the session after construction.
GameNew(walls, found, ticks) ==
    [game_state |-> "playing",
     running |-> TRUE,
     stats |-> StatsNew,
     player |-> PlayerNew(spawn_x, spawn_y),
     enemies |-> spawn_enemies(walls, spawn_count, found),
     since_attack |-> Min(attack_cooldown, ticks)]

\* variants of the victory test of game.py 536: without the test of the enemy
\* group, and with a test that is off by one
VictoryCheck_AnyKill(state, rest) == "victory"

VictoryCheck_OneLeft(state, rest) ==
    IF Cardinality(DOMAIN rest) <= 1 THEN "victory" ELSE state

\* game.py 536-537: after a kill, the phase is "victory" if no enemy is left.
VictoryCheck(state, rest) ==
    IF DOMAIN rest = {} THEN "victory" ELSE state

\* a variant of the loop of Game.player_attack that damages the enemies in
\* range and removes none of them
RECURSIVE AttackLoop_NoRemoval(_, _)
AttackLoop_NoRemoval(g, ids) ==
    IF ids = <<>> THEN g
    ELSE LET id == Head(ids)
             e == g.enemies[id]
             dx == centerx(EnemyRect(e)) - centerx(PlayerRect(g.player))
             dy == centery(EnemyRect(e)) - centery(PlayerRect(g.player))
         IN  IF dx * dx + dy * dy < attack_range * attack_range
             THEN AttackLoop_NoRemoval(
                      [g EXCEPT !.enemies[id] =
                                    Enemy_take_damage(e, g.stats.attack).enemy],
                      Tail(ids))
             ELSE AttackLoop_NoRemoval(g, Tail(ids))

\* a variant of the bookkeeping of a kill that awards the exp without
\* counting the enemy
enemy_defeated_NoCount(stats) ==
    LET s1 == [stats EXCEPT !.exp = @ + exp_per_kill]
    IN  IF s1.exp >= s1.exp_to_level THEN level_up(s1) ELSE s1

\* a variant of the bookkeeping of a kill that awards twice the exp
enemy_defeated_DoubleExp(stats) ==
    LET s1 == [stats EXCEPT !.exp = @ + 2 * exp_per_kill,
                            !.enemies_defeated = @ + 1]
    IN  IF s1.exp >= s1.exp_to_level THEN level_up(s1) ELSE s1

\* a variant of the bookkeeping of a kill whose level-up test is strict
enemy_defeated_Strict(stats) ==
    LET s1 == [stats EXCEPT !.exp = @ + exp_per_kill,
                            !.enemies_defeated = @ + 1]
    IN  IF s1.exp > s1.exp_to_level THEN level_up(s1) ELSE s1

\* game.py 525-535: what Game.player_attack does to the stats when an enemy
\* has been removed
enemy_defeated(stats) ==
    LET s1 == [stats EXCEPT !.exp = @ + exp_per_kill,
                            !.enemies_defeated = @ + 1]
    IN  IF s1.exp >= s1.exp_to_level THEN level_up(s1) ELSE s1

\* game.py 515-539: the loop of player_attack over a copy of the enemy list.
RECURSIVE AttackLoop(_, _)
AttackLoop(g, ids) ==
    IF ids = <<>> THEN g
    ELSE LET id == Head(ids)
             e == g.enemies[id]
             dx == centerx(EnemyRect(e)) - centerx(PlayerRect(g.player))
             dy == centery(EnemyRect(e)) - centery(PlayerRect(g.player))
         IN  IF dx * dx + dy * dy < attack_range * attack_range
             THEN LET hit == Enemy_take_damage(e, g.stats.attack).enemy
                  IN  IF hit.health <= 0
                      THEN LET rest == [i \in DOMAIN g.enemies \ {id} |-> g.enemies[i]]
                               s2 == enemy_defeated(g.stats)
                           IN  AttackLoop([g EXCEPT !.enemies = rest,
                                                    !.stats = s2,
                                                    !.game_state =
                                                        VictoryCheck(@, rest)],
                                          Tail(ids))
                      ELSE AttackLoop([g EXCEPT !.enemies[id] = hit], Tail(ids))
             ELSE AttackLoop(g, Tail(ids))

\* a variant of Game.player_attack without the cooldown test of game.py 509
player_attack_NoCooldown(g) ==
    AttackLoop([g EXCEPT !.since_attack = 0], Ordered(DOMAIN g.enemies))

\* Game.player_attack.
player_attack(g) ==
    IF g.since_attack < attack_cooldown THEN g
    ELSE AttackLoop([g EXCEPT !.since_attack = 0],
                    Ordered(DOMAIN g.enemies))

\* game.py 412-420: the loop of update over the enemies.
RECURSIVE EnemyLoop(_, _, _, _)
EnemyLoop(g, walls, dt, ids) ==
    IF ids = <<>> THEN g
    ELSE LET id == Head(ids)
             e1 == Enemy_handle_timers(g.enemies[id], dt)
             ai == Enemy_handle_ai_behavior(e1, g.player)
             e3 == handle_enemy_movement(ai.enemy, walls)
         IN  EnemyLoop([g EXCEPT !.enemies[id] = e3, !.player = ai.player],
                       walls, dt, Tail(ids))

\* Game.update(dt) with the keys pygame.key.get_pressed() reports.
update(g, walls, dt, keys) ==
    LET g1 == [g EXCEPT !.player = Player_update_invincibility(@, dt)]
    IN  IF g1.player.current_hearts <= 0 /\ g1.game_state = "playing"
        THEN [g1 EXCEPT !.game_state = "game_over"]
        ELSE IF g1.game_state = "playing"
        THEN EnemyLoop([g1 EXCEPT !.player =
                            handle_player_movement(@, walls, keys, dt)],
                       walls, dt, Ordered(DOMAIN g1.enemies))
        ELSE g1

\* one event of Game.handle_events; `found` are the spawn points a restart
\* would draw.  A restart happens only after a session was played to its end,
\* so at a get_ticks() of attack_cooldown or more.
\* a variant of the handling of an event that restarts on R in every phase
handle_event_RestartAlways(g, walls, ev, found) ==
    IF ev \in {"QUIT", "K_ESCAPE"} THEN [g EXCEPT !.running = FALSE]
    ELSE IF ev = "K_SPACE" THEN player_attack(g)
    ELSE IF ev = "K_r" THEN GameNew(walls, found, attack_cooldown)
    ELSE g

handle_event(g, walls, ev, found) ==
    IF ev \in {"QUIT", "K_ESCAPE"} THEN [g EXCEPT !.running = FALSE]
    ELSE IF ev = "K_SPACE" THEN player_attack(g)
    ELSE IF ev = "K_r" /\ g.game_state \in {"game_over", "victory"}
    THEN GameNew(walls, found, attack_cooldown)
    ELSE g

RECURSIVE handle_events(_, _, _, _)
handle_events(g, walls, evs, found) ==
    IF evs = <<>> THEN g
    ELSE handle_events(handle_event(g, walls, Head(evs), found),
                       walls, Tail(evs), found)

\* ------------------------------------------------------------- the state
\* ---------------------------------------------------------------------------
\* Game.handle_collisions and Game.get_nearby_sprites (game.py 742-781)
\* ---------------------------------------------------------------------------

\* Game.all_sprites in its order: the player (game.py 204-208), then the live
\* enemies (game.py 379); 0 stands for the player
all_sprites(es) == <<0>> \o Ordered(DOMAIN es)

sprite_rect(p, es, s) == IF s = 0 THEN PlayerRect(p) ELSE EnemyRect(es[s])

\* game.py 754-762: the cells a sprite is added to
sprite_cells(r) ==
    { <<x, y>> : x \in (r.x \div cell_size)..((r.x + r.w) \div cell_size),
                 y \in (r.y \div cell_size)..((r.y + r.h) \div cell_size) }

\* a variant of the rebuild that adds a sprite to the cell of its top left
\* corner only
handle_collisions_TopLeft(p, es) ==
    LET sprites == all_sprites(es)
        corner(s) == << sprite_rect(p, es, s).x \div cell_size,
                        sprite_rect(p, es, s).y \div cell_size >>
        cells == { corner(sprites[i]) : i \in DOMAIN sprites }
    IN  [c \in cells |-> SelectSeq(sprites, LAMBDA s : c = corner(s))]

\* game.py 742-762: the spatial hash that handle_collisions builds
handle_collisions(p, es) ==
    LET sprites == all_sprites(es)
        cells == UNION { sprite_cells(sprite_rect(p, es, sprites[i])) :
                           i \in DOMAIN sprites }
    IN  [c \in cells |->
           SelectSeq(sprites,
                     LAMBDA s : c \in sprite_cells(sprite_rect(p, es, s)))]

\* game.py 764-781: get_nearby_sprites(sprite) with the spatial hash `hash`;
\* the list is made from a set, and is given here in the order of the ids
get_nearby_sprites(hash, p, es, sprite) ==
    LET r == sprite_rect(p, es, sprite)
        center_x == centerx(r) \div cell_size
        center_y == centery(r) \div cell_size
        keys == { <<center_x + dx, center_y + dy>> :
                    dx \in {-1, 0, 1}, dy \in {-1, 0, 1} } \cap DOMAIN hash
        nearby == UNION { { hash[c][i] : i \in DOMAIN hash[c] } : c \in keys }
    IN  Ordered({ s \in nearby : s # sprite })

\* Game.spatial_hash before the first call of handle_collisions
NoHash == [c \in {} |-> <<>>]

VARIABLES
    game_state,        \* Game.game_state: "playing", "game_over", "victory"
    running,           \* Game.running
    stats,             \* Game.stats
    player,            \* Game.player
    enemies,           \* Game.enemies: live enemy id -> Enemy
    since_attack,      \* min(attack_cooldown, get_ticks() - last_attack_time)
    blocked_rects,     \* Game.blocked_rects, in list order
    pc,                \* where Game.run is: "run" (in the loop), "done"; or
                       \* the class or method driven on its own: "Enemy", "Player",
                       \* "Game.handle_player_movement", "Stats"
    session,           \* history: flips at each restart (Game.__init__)
    victories,         \* history: entries into "victory" since __init__
    last_call,         \* history: the last method called on an entity alone,
                       \* [op, ret]; ret is the repr() of the value returned
    spatial_hash,      \* Game.spatial_hash: cell <<x, y>> -> list of sprites
                       \* (0 is the player, an enemy is its id)
    tick_time          \* history, for an entity driven on its own: the sum of
                       \* the dt of its ticks since it last lost health, up
                       \* to the duration of its invincibility

vars == <<game_state, running, stats, player, enemies, since_attack,
          blocked_rects, pc, session, victories, last_call, spatial_hash,
          tick_time>>

\* no entity method was called outside of Game.run
NoCall == [op |-> "Game.run", ret |-> "None"]

\* the Game object as the record the operators above work on
Game ==
    [game_state |-> game_state, running |-> running, stats |-> stats,
     player |-> player, enemies |-> enemies, since_attack |-> since_attack]

SetGame(g) ==
    /\ game_state' = g.game_state
    /\ running' = g.running
    /\ stats' = g.stats
    /\ player' = g.player
    /\ enemies' = g.enemies
    /\ since_attack' = g.since_attack

\* ----------------------------------------------------- the session's inputs
\* the boundaries setup_collisions falls back to (game.py 339-344)
FallbackWalls ==
    << Rect(0, 0, 800, 32), Rect(0, 0, 32, 600),
       Rect(0, 568, 800, 32), Rect(768, 0, 32, 600) >>

\* the collision world of the session, as a map's collision layer gives it
\* (game.py 247-278): the same boundaries and one obstacle that touches the
\* left edge of the player's spawn rectangle
SessionWalls == FallbackWalls \o << Rect(68, 100, 32, 32) >>

\* points random.randint may draw in find_valid_spawn_position: one within
\* attack_radius of the player, one outside attack_range but within
\* detection_radius, one inside the obstacle, one whose 32 x 32 box ends one
\* pixel before the right boundary
SpawnSamples == { <<110, 110>>, <<190, 110>>, <<70, 100>>, <<735, 300>> }

\* the sequences of points the five calls of find_valid_spawn_position return
SpawnPatterns ==
    { << <<110, 110>>, <<110, 110>>, <<110, 110>>, <<110, 110>>, <<110, 110>> >>,
      << <<110, 110>>, <<110, 110>>, <<190, 110>>, <<110, 110>>, <<110, 110>> >>,
      << <<110, 110>>, <<110, 110>>, <<735, 300>>, <<110, 110>>, <<110, 110>> >> }

\* milliseconds between two frames of Game.run
ElapsedValues == { 100 }

\* sets of held movement keys
KeySets == { {}, {"LEFT"} }

EventKinds == { "K_SPACE", "K_r", "K_ESCAPE" }

EventLists == UNION { [1..n -> EventKinds] : n \in 0..MaxEvents }

\* Game.find_valid_spawn_position: the points it can return, a valid sample
\* or, when max_attempts samples were all invalid, the fallback point.
find_valid_spawn_position(walls) ==
    { pt \in SpawnSamples :
        is_valid_spawn_position(walls, pt[1], pt[2],
                                spawn_check_size, spawn_check_size) }
    \cup (IF \E pt \in SpawnSamples :
                ~is_valid_spawn_position(walls, pt[1], pt[2],
                                         spawn_check_size, spawn_check_size)
          THEN { <<spawn_x, spawn_y>> } ELSE {})

SpawnDraws(walls) ==
    { found \in SpawnPatterns :
        \A i \in 1..Len(found) : found[i] \in find_valid_spawn_position(walls) }

\* get_ticks() when Game() is constructed: right at pygame.init(), or later
StartTicks == { 0, 500 }

\* ---------------------------------------------------------------- actions
Init ==
    /\ blocked_rects = SessionWalls
    /\ \E found \in SpawnDraws(SessionWalls), ticks \in StartTicks :
         LET g == GameNew(SessionWalls, found, ticks)
         IN  /\ game_state = g.game_state
             /\ running = g.running
             /\ stats = g.stats
             /\ player = g.player
             /\ enemies = g.enemies
             /\ since_attack = g.since_attack
    /\ pc = "run"
    /\ session = 0
    /\ victories = 0
    /\ last_call = NoCall
    /\ spatial_hash = NoHash
    /\ tick_time = 0

\* the Game when the frame's clock has advanced by `elapsed`
Elapse(g, elapsed) ==
    [g EXCEPT !.since_attack = Min(attack_cooldown, @ + elapsed)]

\* whether one of the K_r events of `evs` restarts the session (the state a
\* restart leaves is "playing" whatever it spawns)
Restarts(g, walls, evs) ==
    \E i \in 1..Len(evs) :
        /\ evs[i] = "K_r"
        /\ handle_events(g, walls, SubSeq(evs, 1, i - 1), <<>>).game_state
             \in {"game_over", "victory"}

\* Game.run 850-866, one iteration of the loop: dt is computed from the
\* clock, handle_events runs on the pending events, then update(dt) runs with
\* the keys held.
Frame ==
    /\ pc = "run"
    /\ running
    /\ \E elapsed \in ElapsedValues, evs \in EventLists, keys \in KeySets :
         LET g0 == Elapse(Game, elapsed)
             frame_dt == Min(elapsed, max_dt)
         IN  IF Restarts(g0, blocked_rects, evs)
             THEN \E found \in SpawnDraws(blocked_rects) :
                    /\ SetGame(update(handle_events(g0, blocked_rects, evs, found),
                                      blocked_rects, frame_dt, keys))
                    /\ session' = 1 - session
                    /\ victories' = 0
             ELSE LET g == handle_events(g0, blocked_rects, evs, <<>>)
                  IN  /\ SetGame(update(g, blocked_rects, frame_dt, keys))
                      /\ session' = session
                      /\ victories' =
                           IF g.game_state = "victory" /\ game_state # "victory"
                           THEN victories + 1 ELSE victories
    /\ spatial_hash' = IF game_state' = "playing"
                       THEN handle_collisions(player', enemies')
                       ELSE spatial_hash
    /\ UNCHANGED <<blocked_rects, pc, last_call, tick_time>>

\* Game.run 850, 942: the loop ends once running is False.
Quit ==
    /\ pc = "run"
    /\ ~running
    /\ pc' = "done"
    /\ UNCHANGED <<game_state, running, stats, player, enemies,
                   since_attack, blocked_rects, session, victories, last_call,
                   spatial_hash, tick_time>>

Next == Frame \/ Quit

Spec == Init /\ [][Next]_vars

\* ------------------------------------------- the entities on their own
\* Player and Enemy driven through their methods directly, without a Game:
\* take_damage with any amount, Enemy.attack, and the per-tick timer updates
\* with any dt Game.run can pass.  The enemy has the id 1.  A behaviour calls
\* the methods of one class, the one pc names.

\* repr() of a Python bool
ReprBool(b) == IF b THEN "True" ELSE "False"

\* damage amounts: Enemy.attack_power, Game.stats['attack'], an amount of one
\* heart and a remainder, and one above an enemy's full health
DamageAmounts == { 5, 10, 20, 31, 40 }

\* values of dt: a frame at 60 FPS and the cap of Game.run
TickValues == { 16, 100 }

\* where the enemy is created: within attack_radius of the player, or
\* beyond detection_radius
EntitySpawns == { <<110, 110>>, <<400, 110>> }

InitEntity ==
    /\ game_state = "playing"
    /\ running = TRUE
    /\ stats = StatsNew
    /\ player = PlayerNew(spawn_x, spawn_y)
    /\ \E pt \in EntitySpawns :
         enemies = [id \in {1} |-> EnemyNew(pt[1], pt[2])]
    /\ since_attack = 0
    /\ blocked_rects = <<>>
    /\ pc \in { "Enemy", "Player" }
    /\ session = 0
    /\ victories = 0
    /\ last_call = [op |-> "__init__", ret |-> "None"]
    /\ spatial_hash = NoHash
    /\ tick_time = IF pc = "Player" THEN player_invincible_duration
                   ELSE enemy_invincible_duration

EntityFrame ==
    UNCHANGED <<game_state, running, stats, since_attack, blocked_rects,
                pc, session, victories, spatial_hash>>

\* tick_time after a tick of dt ms of the entity driven on its own
Ticked(dt) ==
    Min(IF pc = "Player" THEN player_invincible_duration
        ELSE enemy_invincible_duration,
        tick_time + dt)

\* Enemy.take_damage(amount) on a live enemy (Game removes an enemy as soon as
\* its health is 0 or less).
EnemyTakeDamage ==
    /\ pc = "Enemy"
    /\ enemies[1].health > 0
    /\ \E amount \in DamageAmounts :
         LET r == Enemy_take_damage(enemies[1], amount)
         IN  /\ enemies' = [enemies EXCEPT ![1] = r.enemy]
             /\ last_call' = [op |-> "Enemy.take_damage", ret |-> ToString(r.ret)]
             /\ tick_time' = IF r.enemy.health < enemies[1].health
                             THEN 0 ELSE tick_time
    /\ UNCHANGED player
    /\ EntityFrame

\* Player.take_damage(amount)
PlayerTakeDamage ==
    /\ pc = "Player"
    /\ \E amount \in DamageAmounts :
         LET r == Player_take_damage(player, amount)
         IN  /\ player' = r.player
             /\ last_call' = [op |-> "Player.take_damage", ret |-> ReprBool(r.ret),
                              amount |-> amount]
             /\ tick_time' = IF r.player.current_hearts < player.current_hearts
                             THEN 0 ELSE tick_time
    /\ UNCHANGED enemies
    /\ EntityFrame

\* Enemy.attack(player)
EnemyAttack ==
    /\ pc = "Enemy"
    /\ LET r == Enemy_attack(enemies[1], player)
       IN  /\ enemies' = [enemies EXCEPT ![1] = r.enemy]
           /\ player' = r.player
    /\ last_call' = [op |-> "Enemy.attack", ret |-> "None"]
    /\ UNCHANGED tick_time
    /\ EntityFrame

\* Enemy._handle_timers(dt)
EnemyTick ==
    /\ pc = "Enemy"
    /\ \E dt \in TickValues :
         /\ enemies' = [enemies EXCEPT ![1] = Enemy_handle_timers(@, dt)]
         /\ tick_time' = Ticked(dt)
    /\ last_call' = [op |-> "Enemy._handle_timers", ret |-> "None"]
    /\ UNCHANGED player
    /\ EntityFrame

\* Player.update(dt)
PlayerTick ==
    /\ pc = "Player"
    /\ \E dt \in TickValues :
         /\ player' = Player_update_invincibility(player, dt)
         /\ tick_time' = Ticked(dt)
    /\ last_call' = [op |-> "Player.update", ret |-> "None"]
    /\ UNCHANGED enemies
    /\ EntityFrame

\* game.py 412-420: what one pass of the loop of Game.update does with the
\* enemy, for a tick of dt ms.
EnemyUpdate ==
    /\ pc = "Enemy"
    /\ \E dt \in TickValues :
         LET g == EnemyLoop(Game, blocked_rects, dt, <<1>>)
         IN  /\ enemies' = g.enemies
             /\ player' = g.player
             /\ last_call' = [op |-> "Game.update", ret |-> "None", dt |-> dt]
             /\ tick_time' = Ticked(dt)
    /\ EntityFrame

NextEntity ==
    \/ EnemyTakeDamage \/ PlayerTakeDamage \/ EnemyAttack \/ EnemyTick
    \/ PlayerTick \/ EnemyUpdate

SpecEntity == InitEntity /\ [][NextEntity]_vars

\* Game.run 850-866 calls update in every iteration of its loop: while the
\* session is played, the next tick of the enemy is not put off forever.
SpecEntityRun == SpecEntity /\ WF_vars(EnemyUpdate)

\* C6: take_damage on an invincible entity changes nothing of the entity and
\* returns 0 (Enemy) or False (Player), whatever the amount.
C6_InvincibleTakeDamageNoOp ==
    [][/\ (last_call'.op = "Enemy.take_damage" /\ enemies[1].invincible)
           => (enemies' = enemies /\ last_call'.ret = "0")
       /\ (last_call'.op = "Player.take_damage" /\ player.invincible)
           => (player' = player /\ last_call'.ret = "False")]_vars

\* Enemy.take_damage has just returned 0: only a call on an invincible enemy
\* does, every other call returns a damage of 1 or more
C6_Witness ==
    /\ last_call = [op |-> "Enemy.take_damage", ret |-> "0"]
    /\ enemies[1].invincible
    /\ enemies[1].health < DEFAULT_HEALTH

\* C7: every enemy's health is 0 or more, and the player's hearts and health
\* are 0 or more and at most their maximum.
C7_HealthNeverNegative ==
    /\ \A id \in DOMAIN enemies : enemies[id].health >= 0
    /\ player.current_hearts \in 0..MAX_HEARTS
    /\ player.health \in 0..(MAX_HEARTS * HEALTH_PER_HEART)

\* C8: every invincibility timer and every knockback timer is 0 or more.
C8_TimersNeverNegative ==
    /\ player.invincible_timer >= 0
    /\ \A id \in DOMAIN enemies :
          /\ enemies[id].invincible_timer >= 0
          /\ enemies[id].knockback_time >= 0

\* ------------------------------------ handle_player_movement on its own
\* Game.handle_player_movement called from positions that overlap no blocked
\* rectangle, in a closed room with a post standing 4 px in front of the
\* right wall; the two rectangles are in blocked_rects in either order.
MoveRoom ==
    << Rect(0, 0, 200, 32), Rect(0, 0, 32, 132), Rect(0, 100, 200, 32) >>

MoveRightWall == Rect(104, 0, 32, 132)

MovePost == Rect(100, 40, 8, 20)

MoveWorlds ==
    { MoveRoom \o << MoveRightWall, MovePost >>,
      MoveRoom \o << MovePost, MoveRightWall >> }

\* the held keys: each direction and two diagonals
MoveKeySets ==
    { {"LEFT"}, {"RIGHT"}, {"UP"}, {"DOWN"}, {"RIGHT", "DOWN"}, {"LEFT", "UP"} }

InitMove ==
    /\ game_state = "playing"
    /\ running = TRUE
    /\ stats = StatsNew
    /\ player = PlayerNew(40, 32)
    /\ enemies = <<>>
    /\ since_attack = 0
    /\ blocked_rects \in MoveWorlds
    /\ pc = "Game.handle_player_movement"
    /\ session = 0
    /\ victories = 0
    /\ last_call = NoCall
    /\ spatial_hash = NoHash
    /\ tick_time = 0

Move ==
    /\ pc = "Game.handle_player_movement"
    /\ NoOverlap(PlayerRect(player), blocked_rects)
    /\ \E keys \in MoveKeySets, dt \in TickValues :
         player' = handle_player_movement(player, blocked_rects, keys, dt)
    /\ UNCHANGED <<game_state, running, stats, enemies, since_attack,
                   blocked_rects, pc, session, victories, last_call,
                   spatial_hash, tick_time>>

NextMove == Move

SpecMove == InitMove /\ [][NextMove]_vars

\* C9: the player's rectangle overlaps no blocked rectangle (handle_player_
\* movement is called only from such positions, so it preserves non-overlap).
C9_PlayerClearOfWalls ==
    NoOverlap(PlayerRect(player), blocked_rects)

\* ------------------------------------------------- properties of the session
\* C1: the terminal phases are absorbing: within a session, a frame that
\* starts in "game_over" or "victory" ends in the same phase (only a restart,
\* which starts the next session, leaves it).
C1_TerminalAbsorbing ==
    [][(game_state \in {"game_over", "victory"} /\ session' = session)
         => game_state' = game_state]_vars

\* C2: a frame of a running game that starts in "playing" with the player at
\* 0 hearts ends in "game_over", whatever events it handles before update.
C2_GameOverAfterLastHeart ==
    [][(game_state = "playing" /\ player.current_hearts = 0 /\ running)
         => game_state' = "game_over"]_vars

\* C3: a frame that starts in "game_over" and does not restart leaves the
\* player's rectangle, the live enemy set, every enemy's health and position,
\* and the stats as they were.
C3_GameOverFreezes ==
    [][(game_state = "game_over" /\ session' = session)
         => /\ PlayerRect(player') = PlayerRect(player)
            /\ DOMAIN enemies' = DOMAIN enemies
            /\ \A id \in DOMAIN enemies :
                  /\ enemies'[id].health = enemies[id].health
                  /\ EnemyRect(enemies'[id]) = EnemyRect(enemies[id])
            /\ stats' = stats]_vars

\* C4: in every state, "victory" implies that no enemy is live; and a frame in
\* which the enemy set becomes empty ends in "victory".
C4_VictoryIffEmpty ==
    /\ [](game_state = "victory" => DOMAIN enemies = {})
    /\ [][(DOMAIN enemies # {} /\ DOMAIN enemies' = {})
             => game_state' = "victory"]_vars

\* a session won with hearts to spare: all five enemies were removed
C4_Witness ==
    /\ game_state = "victory"
    /\ DOMAIN enemies = {}
    /\ player.current_hearts > 0

\* C5: the phase becomes "victory" in the frame whose attack removes the last
\* of the five enemies and in that frame only, enemies_defeated is 5 then,
\* and a session enters "victory" at most once.
C5_VictoryOnFifthKill ==
    /\ [](victories <= 1)
    /\ [][/\ (game_state # "victory" /\ game_state' = "victory")
               => /\ DOMAIN enemies # {}
                  /\ DOMAIN enemies' = {}
                  /\ stats'.enemies_defeated = spawn_count
          /\ (stats.enemies_defeated < spawn_count
                /\ stats'.enemies_defeated = spawn_count)
               => game_state' = "victory"]_vars

\* a restarted session that was won: five defeats, one entry into "victory"
C5_Witness ==
    /\ session = 1
    /\ game_state = "victory"
    /\ victories = 1
    /\ stats.enemies_defeated = spawn_count

\* C10: no live enemy's collision rectangle overlaps a blocked rectangle.
C10_EnemiesClearOfWalls ==
    \A id \in DOMAIN enemies : NoOverlap(EnemyRect(enemies[id]), blocked_rects)

\* C11: an enemy whose attack fired in the update of one frame fires none in
\* the update of the next frame: a frame is at most max_dt = 100 ms of tick
\* time, and 1000 ms must pass between two attacks of one enemy.  (Enemy.attack
\* leaves hit_cooldown at hit_cooldown_reset, and the next _handle_timers
\* takes dt off it, so the value marks an attack fired in the last update.)
C11_EnemyAttackCooldown ==
    [][\A id \in DOMAIN enemies \cap DOMAIN enemies' :
          (/\ enemies[id].hit_cooldown = hit_cooldown_reset
           /\ game_state' = "playing" /\ session' = session /\ pc' = "run")
            => enemies'[id].hit_cooldown # hit_cooldown_reset]_vars

C13_KnockbackSuppressesAI ==
    [][(last_call'.op = "Game.update"
          /\ enemies[1].knockback_time > last_call'.dt)
         => /\ enemies'[1].hit_cooldown # hit_cooldown_reset
            /\ enemies'[1].dx = enemies[1].dx
            /\ enemies'[1].dy = enemies[1].dy
            /\ EnemyRect(enemies'[1]) = EnemyRect(enemies[1])]_vars

\* the enemy `id` is live and at detection_radius or more from the player
\* (the distance _handle_ai_behavior computes, between the centres)
Far(id) ==
    /\ id \in DOMAIN enemies
    /\ LET dx == centerx(PlayerRect(player)) - centerx(EnemyRect(enemies[id]))
           dy == centery(PlayerRect(player)) - centery(EnemyRect(enemies[id]))
       IN  dx * dx + dy * dy >= detection_radius * detection_radius

\* C14: an enemy that is beyond the detection radius and is ticked again and
\* again does not stay there without a velocity forever: eventually it has a
\* velocity to wander with (or it is no longer beyond the radius).
C14_FarEnemyWanders ==
    (pc = "Enemy" /\ Far(1))
      ~> (\/ ~Far(1)
          \/ enemies[1].dx # 0
          \/ enemies[1].dy # 0)

\* C15: Player.take_damage(amount) on a player that is not invincible removes
\* min(current_hearts, max(1, amount div 17)) hearts, leaves health equal to
\* current_hearts * 17, makes the player invincible with a timer of 1000 ms
\* and returns True.
C15_PlayerTakeDamageHearts ==
    [][(last_call'.op = "Player.take_damage" /\ ~player.invincible)
         => LET amount == last_call'.amount
                removed == Min(player.current_hearts, Max(1, amount \div 17))
            IN  /\ player'.current_hearts = player.current_hearts - removed
                /\ player'.health = player'.current_hearts * 17
                /\ player'.invincible
                /\ player'.invincible_timer = 1000
                /\ last_call'.ret = "True"]_vars

\* a damage of 40 has taken two hearts from a full player
C15_Witness ==
    /\ last_call.op = "Player.take_damage"
    /\ last_call.ret = "True"
    /\ last_call.amount = 40
    /\ player.current_hearts = MAX_HEARTS - 2
    /\ player.health = (MAX_HEARTS - 2) * 17

\* ---------------------------------------------------------------------------
\* The stats of the player on their own: kills and level-ups applied to the
\* stats of a new Game, as Game.player_attack and Game.level_up apply them.
\* ---------------------------------------------------------------------------

\* levels above this one are not explored
MaxLevel == 4

InitStats ==
    /\ game_state = "playing"
    /\ running = TRUE
    /\ stats = StatsNew
    /\ player = PlayerNew(spawn_x, spawn_y)
    /\ enemies = <<>>
    /\ since_attack = 0
    /\ blocked_rects = <<>>
    /\ pc = "Stats"
    /\ session = 0
    /\ victories = 0
    /\ last_call = [op |-> "__init__", ret |-> "None"]
    /\ spatial_hash = NoHash
    /\ tick_time = 0

StatsFrame ==
    UNCHANGED <<game_state, running, player, enemies, since_attack,
                blocked_rects, pc, session, victories, spatial_hash, tick_time>>

\* game.py 525-535: an enemy has just been removed by Game.player_attack
EnemyDefeated ==
    /\ pc = "Stats"
    /\ stats.level < MaxLevel
    /\ stats' = enemy_defeated(stats)
    /\ last_call' = [op |-> "Game.player_attack", ret |-> "None"]
    /\ StatsFrame

\* game.py 541-550: Game.level_up()
LevelUp ==
    /\ pc = "Stats"
    /\ stats.level < MaxLevel
    /\ stats' = level_up(stats)
    /\ last_call' = [op |-> "Game.level_up", ret |-> "None"]
    /\ StatsFrame

NextStats == EnemyDefeated \/ LevelUp

SpecStats == InitStats /\ [][NextStats]_vars

\* what the stats are after a level-up from the stats s
LevelledUp(s, t) ==
    /\ t.level = s.level + 1
    /\ t.exp = 0
    /\ 2 * t.exp_to_level <= 3 * s.exp_to_level
    /\ 3 * s.exp_to_level < 2 * t.exp_to_level + 2
    /\ t.max_health = s.max_health + 20
    /\ t.health = t.max_health
    /\ t.attack = s.attack + 5
    /\ t.defense = s.defense + 2

\* C16: the level-up test after a kill applies level_up exactly when exp has
\* reached exp_to_level; level_up adds 1 to level, resets exp to 0, sets
\* exp_to_level to floor(1.5 * exp_to_level), adds 20 to max_health and sets
\* health to it, adds 5 to attack and 2 to defense.
C16_LevelUp ==
    [][/\ stats' # stats /\ last_call'.op = "Game.level_up"
            => /\ LevelledUp(stats, stats')
               /\ stats'.enemies_defeated = stats.enemies_defeated
       /\ stats' # stats /\ last_call'.op = "Game.player_attack"
            => /\ stats'.enemies_defeated = stats.enemies_defeated + 1
               /\ IF stats.exp + 10 >= stats.exp_to_level
                  THEN LevelledUp(stats, stats')
                  ELSE stats' = [stats EXCEPT !.exp = @ + 10,
                                             !.enemies_defeated = @ + 1]]_vars

\* the tenth kill has taken exp to 100 with exp_to_level 100, and the stats
\* are those of level 2 with exp 0 and exp_to_level 150
C16_Witness ==
    /\ pc = "Stats"
    /\ last_call.op = "Game.player_attack"
    /\ stats.enemies_defeated = 10
    /\ stats.level = 2
    /\ stats.exp = 0
    /\ stats.exp_to_level = 150
    /\ stats.max_health = 120
    /\ stats.health = 120
    /\ stats.attack = 15
    /\ stats.defense = 7

\* C17: in every reachable state of a session every enemy of Game.enemies has
\* health above 0: an enemy that a player attack takes to 0 or below is
\* removed from the list within that attack.
C17_LiveEnemiesHaveHealth ==
    pc = "run" => \A id \in DOMAIN enemies : enemies[id].health > 0

\* an attack has removed an enemy while a damaged enemy is still in the list
C17_Witness ==
    /\ pc = "run"
    /\ stats.enemies_defeated >= 1
    /\ \E id \in DOMAIN enemies : enemies[id].health < DEFAULT_HEALTH

\* the sprites listed in the cell c of the spatial hash
Listed(c) ==
    IF c \in DOMAIN spatial_hash
    THEN { spatial_hash[c][i] : i \in DOMAIN spatial_hash[c] }
    ELSE {}

\* the cells of cell_size px that the rectangle r overlaps
Overlapped(r) ==
    { <<x, y>> : x \in (r.x \div 64)..((r.x + r.w - 1) \div 64),
                 y \in (r.y \div 64)..((r.y + r.h - 1) \div 64) }

\* C18: after handle_collisions has rebuilt the spatial hash, every sprite is
\* listed in every cell of 64 px that its rectangle overlaps, and
\* get_nearby_sprites(e) returns exactly the sprites listed in the 3x3 block
\* of cells around the cell of the centre of e, each once at most, never e.
C18_SpatialHash ==
    (pc = "run" /\ game_state = "playing" /\ spatial_hash # NoHash)
      => \A e \in {0} \cup DOMAIN enemies :
            LET r == sprite_rect(player, enemies, e)
                cx == centerx(r) \div 64
                cy == centery(r) \div 64
                block == { <<cx + dx, cy + dy>> :
                             dx \in {-1, 0, 1}, dy \in {-1, 0, 1} }
                res == get_nearby_sprites(spatial_hash, player, enemies, e)
            IN  /\ \A c \in Overlapped(r) : e \in Listed(c)
                /\ \A i, j \in DOMAIN res : i # j => res[i] # res[j]
                /\ { res[i] : i \in DOMAIN res }
                     = UNION { Listed(c) : c \in block } \ {e}

\* the hash has been rebuilt; the player spans several cells, has an enemy
\* nearby, and another enemy is outside of the 3x3 block of the player
C18_Witness ==
    /\ pc = "run" /\ game_state = "playing" /\ spatial_hash # NoHash
    /\ Cardinality(Overlapped(PlayerRect(player))) > 1
    /\ LET res == get_nearby_sprites(spatial_hash, player, enemies, 0)
       IN  /\ res # <<>>
           /\ \E id \in DOMAIN enemies : \A i \in DOMAIN res : res[i] # id

\* ---------------------------------------------------------------------------
\* The two movement resolvers on their own: Game.handle_enemy_movement and the
\* resolving part of Game.handle_player_movement, called tick after tick on
\* an entity with a constant velocity, in the open or next to one wall.
\* ---------------------------------------------------------------------------

\* calls of a resolver that are explored
DriftTicks == 12

\* where the entities are created
DriftStart == << 400, 300 >>

\* the enemy and the player at the first tick
DriftEnemy0 == EnemyNew(DriftStart[1], DriftStart[2])
DriftPlayer0 == PlayerNew(DriftStart[1], DriftStart[2])

\* the velocity (dx, dy) of the entity, in tenths of a pixel per tick
DriftVelocities ==
    { <<3, 0>>, <<0, 3>>, <<-3, 0>>, <<12, 0>>, <<0, 12>>, <<3, 7>>, <<7, 3>>,
      <<15, 0>> }

\* no wall; a wall 2 px to the right of the rectangle r; a wall 2 px below it
DriftWallsFor(r) ==
    { <<>>,
      << Rect(r.x + r.w + 2, 200, 32, 300) >>,
      << Rect(300, r.y + r.h + 2, 300, 32) >> }

\* the walls next to the enemy
DriftWalls == DriftWallsFor(EnemyRect(DriftEnemy0))

InitDrift ==
    /\ game_state = "playing"
    /\ running = TRUE
    /\ stats = StatsNew
    /\ player = DriftPlayer0
    /\ since_attack = 0
    /\ pc \in { "Game.handle_enemy_movement", "resolve_player_movement" }
    /\ blocked_rects \in IF pc = "Game.handle_enemy_movement"
                          THEN DriftWalls
                          ELSE DriftWallsFor(PlayerRect(DriftPlayer0))
    /\ session = 0
    /\ victories = 0
    /\ spatial_hash = NoHash
    /\ tick_time = 0
    /\ \E v \in DriftVelocities :
         /\ enemies = [id \in {1} |->
                         [DriftEnemy0
                            EXCEPT !.dx = v[1] * (EUnit \div 10),
                                   !.dy = v[2] * (EUnit \div 10)]]
         /\ last_call = [op |-> "__init__", ret |-> "None", calls |-> 0,
                         dx |-> v[1], dy |-> v[2]]

DriftFrame ==
    UNCHANGED <<game_state, running, stats, since_attack, blocked_rects,
                pc, session, victories, spatial_hash, tick_time>>

\* game.py 783-837: handle_enemy_movement(enemy, dt)
DriftEnemy ==
    /\ pc = "Game.handle_enemy_movement"
    /\ last_call.calls < DriftTicks
    /\ enemies' = [enemies EXCEPT ![1] = handle_enemy_movement(@, blocked_rects)]
    /\ last_call' = [last_call EXCEPT !.op = "Game.handle_enemy_movement",
                                      !.calls = @ + 1]
    /\ UNCHANGED player
    /\ DriftFrame

\* game.py 445-506: handle_player_movement for a displacement of
\* (dx, dy) tenths of a pixel
DriftPlayer ==
    /\ pc = "resolve_player_movement"
    /\ last_call.calls < DriftTicks
    /\ player' = resolve_player_movement(player, blocked_rects,
                                         last_call.dx * (PUnit \div 10),
                                         last_call.dy * (PUnit \div 10))
    /\ last_call' = [last_call EXCEPT !.op = "Game.handle_player_movement",
                                      !.calls = @ + 1]
    /\ UNCHANGED enemies
    /\ DriftFrame

NextDrift == DriftEnemy \/ DriftPlayer

SpecDrift == InitDrift /\ [][NextDrift]_vars

C20_EnemyBounce ==
    [][(pc = "Game.handle_enemy_movement"
          /\ last_call'.calls = last_call.calls + 1)
         => LET e == enemies[1]
                f == enemies'[1]
                sx == EnemyAxisStep(e.dx, e.dx_accumulator).step
                sy == EnemyAxisStep(e.dy, e.dy_accumulator).step
                hit_x == /\ sx # 0
                         /\ ~NoOverlap(Rect(e.x + sx, e.y, EnemyRectSize,
                                            EnemyRectSize), blocked_rects)
                hit_y == /\ sy # 0
                         /\ ~NoOverlap(Rect(f.x, e.y + sy, EnemyRectSize,
                                            EnemyRectSize), blocked_rects)
            IN  /\ hit_x => f.x = e.x /\ 10 * f.dx = -8 * e.dx
                /\ ~hit_x => f.x = e.x + sx /\ f.dx = e.dx
                /\ hit_y => f.y = e.y /\ 10 * f.dy = -8 * e.dy
                /\ ~hit_y => f.y = e.y + sy /\ f.dy = e.dy]_vars

\* the enemy, sent right at 0.3 and down at 0.7 px per tick, has bounced off
\* the wall on its right: dx is -0.24, dy is still 0.7
C20_Witness ==
    /\ pc = "Game.handle_enemy_movement"
    /\ blocked_rects # <<>>
    /\ last_call.dx = 3 /\ last_call.dy = 7
    /\ enemies[1].dx = -24
    /\ enemies[1].dy = 70
    /\ enemies[1].x = DriftEnemy0.x + 2

\* C21: when the X shift of the player or of an enemy is blocked by a
\* rectangle and the Y shift, tested at the resolved X position, overlaps no
\* blocked rectangle, the Y shift is applied in full.
C21_BlockedXLeavesY ==
    [][last_call'.calls = last_call.calls + 1
         => IF pc = "Game.handle_enemy_movement"
            THEN LET e == enemies[1]
                     f == enemies'[1]
                     sx == EnemyAxisStep(e.dx, e.dx_accumulator).step
                     sy == EnemyAxisStep(e.dy, e.dy_accumulator).step
                 IN  (/\ sx # 0
                      /\ ~NoOverlap(Rect(e.x + sx, e.y, EnemyRectSize,
                                         EnemyRectSize), blocked_rects)
                      /\ NoOverlap(Rect(f.x, e.y + sy, EnemyRectSize,
                                        EnemyRectSize), blocked_rects))
                       => f.y = e.y + sy
            ELSE LET sx == PlayerAxisStep(last_call.dx * (PUnit \div 10),
                                          player.dx_accumulator).step
                     sy == PlayerAxisStep(last_call.dy * (PUnit \div 10),
                                          player.dy_accumulator).step
                 IN  (/\ sx # 0
                      /\ ~NoOverlap(Rect(player.x + sx, player.y, SPRITE_SIZE,
                                         SPRITE_SIZE), blocked_rects)
                      /\ NoOverlap(Rect(player'.x, player.y + sy, SPRITE_SIZE,
                                        SPRITE_SIZE), blocked_rects))
                       => player'.y = player.y + sy]_vars

\* the enemy, sent right at 0.3 and down at 0.7 px per tick next to a wall on
\* its right, was blocked on X at the tenth tick and has moved 7 px down
C21_Witness ==
    /\ pc = "Game.handle_enemy_movement"
    /\ blocked_rects # <<>>
    /\ last_call.calls = 10
    /\ last_call.dx = 3 /\ last_call.dy = 7
    /\ enemies[1].dx = -24
    /\ enemies[1].x = DriftEnemy0.x + 2
    /\ enemies[1].y = DriftEnemy0.y + 7

\* ---------------------------------------------------------------------------
\* Game.spawn_enemies on its own, one iteration of its loop at a time, in
\* several collision worlds.
\* ---------------------------------------------------------------------------

\* the world of the session; the same with a collision tile over the fallback
\* point of find_valid_spawn_position; a world blocked everywhere
SpawnWorlds ==
    { SessionWalls,
      SessionWalls \o << Rect(96, 96, 32, 32) >>,
      << Rect(0, 0, 800, 600) >> }

InitSpawn ==
    /\ game_state = "playing"
    /\ running = TRUE
    /\ stats = StatsNew
    /\ player = PlayerNew(spawn_x, spawn_y)
    /\ enemies = <<>>
    /\ since_attack = 0
    /\ blocked_rects \in SpawnWorlds
    /\ pc = "Game.spawn_enemies"
    /\ session = 0
    /\ victories = 0
    /\ last_call = [op |-> "Game.spawn_enemies", ret |-> "None", attempts |-> 0]
    /\ spatial_hash = NoHash
    /\ tick_time = 0

SpawnFrame ==
    UNCHANGED <<game_state, running, stats, player, since_attack,
                blocked_rects, session, victories, spatial_hash, tick_time>>

\* game.py 374-381: one iteration of the loop of spawn_enemies
SpawnAttempt ==
    /\ pc = "Game.spawn_enemies"
    /\ Cardinality(DOMAIN enemies) < spawn_count
    /\ last_call.attempts < spawn_attempts
    /\ \E pt \in find_valid_spawn_position(blocked_rects) :
         enemies' = SpawnLoop(blocked_rects, spawn_count, <<pt>>, enemies)
    /\ last_call' = [last_call EXCEPT !.attempts = @ + 1]
    /\ pc' = pc
    /\ SpawnFrame

\* game.py 374: the loop of spawn_enemies ends
SpawnReturn ==
    /\ pc = "Game.spawn_enemies"
    /\ ~(Cardinality(DOMAIN enemies) < spawn_count
           /\ last_call.attempts < spawn_attempts)
    /\ pc' = "spawned"
    /\ UNCHANGED <<enemies, last_call>>
    /\ SpawnFrame

NextSpawn == SpawnAttempt \/ SpawnReturn

SpecSpawn == InitSpawn /\ [][NextSpawn]_vars

\* C22: when spawn_enemies(5) has returned, exactly 5 enemies are in the live
\* set, whatever the blocked rectangles are: an enemy for which no free point
\* was found is created at the fallback point.
C22_SpawnsFive ==
    pc = "spawned" => Cardinality(DOMAIN enemies) = spawn_count

\* the session g is as Game.__init__ leaves it
FreshSession(g) ==
    /\ g.game_state = "playing"
    /\ g.running
    /\ g.player.current_hearts = 6
    /\ g.player.health = 6 * 17
    /\ ~g.player.invincible
    /\ g.player.x = spawn_x /\ g.player.y = spawn_y
    /\ g.stats.level = 1
    /\ g.stats.exp = 0
    /\ g.stats.exp_to_level = 100
    /\ g.stats.attack = 10
    /\ g.stats.defense = 5
    /\ g.stats.enemies_defeated = 0
    /\ DOMAIN g.enemies = 1..spawn_count
    /\ \A id \in DOMAIN g.enemies :
          /\ g.enemies[id].health = DEFAULT_HEALTH
          /\ ~g.enemies[id].invincible
          /\ g.enemies[id].knockback_time = 0
          /\ g.enemies[id].hit_cooldown = 0

\* C23: the key R restarts the session only in the phases "game_over" and
\* "victory" and is ignored in "playing"; the restart leaves the session as
\* a new Game has it (playing, 6 hearts, not invincible, level 1, exp 0,
\* exp_to_level 100, attack 10, defense 5, no enemy defeated, new enemies),
\* whatever the session was before.
C23_RestartReinitialises ==
    pc = "run"
      => \A found \in SpawnDraws(blocked_rects) :
            LET g == handle_event(Game, blocked_rects, "K_r", found)
            IN  IF game_state = "playing"
                THEN g = Game
                ELSE /\ FreshSession(g)
                     /\ \A id \in DOMAIN g.enemies :
                           << g.enemies[id].x, g.enemies[id].y >>
                             = << EnemyNew(found[id][1], found[id][2]).x,
                                  EnemyNew(found[id][1], found[id][2]).y >>

\* a session that was restarted after a victory or a defeat is played again
C23_Witness ==
    /\ pc = "run"
    /\ session = 1
    /\ game_state = "playing"
    /\ stats = StatsNew
    /\ DOMAIN enemies = 1..spawn_count

\* ---------------------------------------------------------------------------
\* Enemy._handle_ai_behavior on its own: an enemy placed at a chosen offset
\* from the player, with a chosen cooldown and velocity, on which the AI and
\* the movement resolver are called in any order.
\* ---------------------------------------------------------------------------

\* centre of the enemy minus centre of the player: the same point, inside the
\* attack radius, at 40 px exactly, between the radii, at 150 px exactly,
\* beyond the detection radius
AIOffsets ==
    { <<0, 0>>, <<10, 10>>, <<39, 0>>, <<40, 0>>, <<24, 32>>, <<44, 0>>,
      <<0, -100>>, <<149, 0>>, <<-90, 120>>, <<150, 0>>, <<300, -20>> }

\* hit_cooldown of the enemy before the call
AICooldowns == { 0, 1, -84 }

\* velocity of the enemy before the call, in EUnit
AIVelocities == { <<0, 0>>, <<80, 0>> }

\* calls of the movement resolver that are explored
MaxAIMoves == 3

AIPlayer0 == PlayerNew(400, 300)

InitAI ==
    /\ game_state = "playing"
    /\ running = TRUE
    /\ stats = StatsNew
    /\ player = AIPlayer0
    /\ since_attack = 0
    /\ blocked_rects = <<>>
    /\ pc = "Enemy._handle_ai_behavior"
    /\ session = 0
    /\ victories = 0
    /\ spatial_hash = NoHash
    /\ tick_time = 0
    /\ last_call = [op |-> "__init__", ret |-> "None", fired |-> FALSE,
                    moves |-> 0]
    /\ \E o \in AIOffsets, c \in AICooldowns, v \in AIVelocities :
         enemies = [id \in {1} |->
                      [EnemyNew(0, 0) EXCEPT
                         !.x = centerx(PlayerRect(AIPlayer0)) + o[1]
                                 - EnemyRectSize \div 2,
                         !.y = centery(PlayerRect(AIPlayer0)) + o[2]
                                 - EnemyRectSize \div 2,
                         !.hit_cooldown = c,
                         !.dx = v[1], !.dy = v[2]]]

AIFrame ==
    UNCHANGED <<game_state, running, stats, since_attack, blocked_rects,
                pc, session, victories, spatial_hash, tick_time>>

\* enemy.py 210-228: enemy._handle_ai_behavior(player, dt)
AIBehavior ==
    /\ pc = "Enemy._handle_ai_behavior"
    /\ LET r == Enemy_handle_ai_behavior(enemies[1], player)
       IN  /\ enemies' = [enemies EXCEPT ![1] = r.enemy]
           /\ player' = r.player
           /\ last_call' = [last_call EXCEPT !.op = "Enemy._handle_ai_behavior",
                                             !.fired = r.fired]
    /\ AIFrame

\* game.py 783-837: handle_enemy_movement(enemy, dt), between two calls of
\* the AI
AIMove ==
    /\ pc = "Enemy._handle_ai_behavior"
    /\ last_call.moves < MaxAIMoves
    /\ enemies' = [enemies EXCEPT ![1] = handle_enemy_movement(@, blocked_rects)]
    /\ last_call' = [last_call EXCEPT !.op = "Game.handle_enemy_movement",
                                      !.moves = @ + 1]
    /\ UNCHANGED player
    /\ AIFrame

NextAI == AIBehavior \/ AIMove

SpecAI == InitAI /\ [][NextAI]_vars

\* the component v of a velocity is the component a of the vector to the
\* player, of squared length d2, scaled to the speed 0.8 and cut to 1/100 px
TowardPlayer(v, a, d2) ==
    /\ (a > 0 => v >= 0) /\ (a < 0 => v <= 0) /\ (a = 0 => v = 0)
    /\ v * v * d2 <= 80 * 80 * a * a
    /\ (Abs(v) + 1) * (Abs(v) + 1) * d2 > 80 * 80 * a * a

\* C24: what _handle_ai_behavior does depends on the distance d between the
\* centres at the call only: below 40 an attack is attempted, and fires
\* exactly when hit_cooldown <= 0; from 40 to below 150 (d > 0) the velocity
\* becomes the unit vector to the player times the speed; from 150 on the
\* velocity becomes (0, 0).
C24_AIBranchByDistance ==
    [][last_call'.op = "Enemy._handle_ai_behavior"
         => LET e == enemies[1]
                f == enemies'[1]
                dx == centerx(PlayerRect(player)) - centerx(EnemyRect(e))
                dy == centery(PlayerRect(player)) - centery(EnemyRect(e))
                d2 == dx * dx + dy * dy
            IN  /\ d2 < 40 * 40
                     => /\ last_call'.fired <=> e.hit_cooldown <= 0
                        /\ last_call'.fired
                             => /\ f.hit_cooldown = 1
                                /\ ~player.invincible
                                      => player'.current_hearts
                                           = player.current_hearts - 1
                /\ d2 >= 40 * 40
                     => ~last_call'.fired /\ player' = player
                /\ (d2 >= 40 * 40 /\ d2 < 150 * 150 /\ d2 > 0)
                     => TowardPlayer(f.dx, dx, d2) /\ TowardPlayer(f.dy, dy, d2)
                /\ d2 >= 150 * 150 => f.dx = 0 /\ f.dy = 0]_vars

\* an enemy that came with a velocity and is now 150 px or more from the
\* player has had its velocity set to (0, 0) by the AI
C24_Witness ==
    /\ pc = "Enemy._handle_ai_behavior"
    /\ last_call.op = "Enemy._handle_ai_behavior"
    /\ last_call.moves > 0
    /\ Far(1)
    /\ enemies[1].dx = 0 /\ enemies[1].dy = 0

\* C25: in a tick of the phase "playing" the spatial hash is rebuilt before
\* the distance checks and the attacks of the enemies of that tick, so that
\* when these run, the hash lists the player and every enemy in the cells
\* that their rectangles, as the checks see them, overlap.  The checks of a
\* tick see the player after handle_player_movement and each enemy where the
\* tick found it; the hash they find is the one the tick started with.
C25_IndexBeforeAI ==
    [][(/\ pc = "run" /\ session' = session
        /\ game_state = "playing" /\ game_state' = "playing")
         => /\ \A c \in Overlapped(PlayerRect(player')) :
                  0 \in Listed(c)
            /\ \A id \in DOMAIN enemies \cap DOMAIN enemies' :
                  \A c \in Overlapped(EnemyRect(enemies[id])) :
                      id \in Listed(c)]_vars

\* C26: on every tick of the player in the open, the integer step taken on
\* an axis plus the change of the accumulator of that axis is the
\* displacement requested on that axis, for displacements below 1 px and for
\* displacements of 1 px or more with a fraction (1.2 or 1.5 px per tick).
C26_PlayerDisplacementAccounted ==
    [][(/\ pc = "resolve_player_movement"
        /\ blocked_rects = <<>>
        /\ last_call'.calls = last_call.calls + 1)
         => /\ (player'.x - player.x) * PUnit
                 + (player'.dx_accumulator - player.dx_accumulator)
                 = last_call.dx * (PUnit \div 10)
            /\ (player'.y - player.y) * PUnit
                 + (player'.dy_accumulator - player.dy_accumulator)
                 = last_call.dy * (PUnit \div 10)]_vars

\* C27: when the attack of an enemy has fired, the rectangle of the enemy
\* that the next call of the movement resolver leaves is 25 px (to the pixel)
\* from where the enemy attacked (its centre not being that of the player),
\* and the attack does not move the player.
C27_KnockbackMovesEnemy ==
    [][/\ (last_call'.op = "Enemy._handle_ai_behavior" /\ last_call'.fired)
            => player'.x = player.x /\ player'.y = player.y
       /\ (/\ last_call.op = "Enemy._handle_ai_behavior" /\ last_call.fired
           /\ last_call'.op = "Game.handle_enemy_movement"
           /\ << centerx(EnemyRect(enemies[1])), centery(EnemyRect(enemies[1])) >>
                # << centerx(PlayerRect(player)), centery(PlayerRect(player)) >>)
            => LET mx == enemies'[1].x - enemies[1].x
                   my == enemies'[1].y - enemies[1].y
               IN  /\ mx * mx + my * my >= 24 * 24
                   /\ mx * mx + my * my <= 26 * 26]_vars

\* C28: once the player has lost hearts, it loses no heart again before 1000
\* ms of tick time have gone by, however often take_damage is called; once
\* an enemy has been damaged, it takes no damage again before 200 ms of tick
\* time have gone by.
C28_InvincibilityWindow ==
    [][/\ (pc = "Player" /\ player'.current_hearts < player.current_hearts)
            => tick_time >= 1000
       /\ (pc = "Enemy" /\ enemies'[1].health < enemies[1].health)
            => tick_time >= 200]_vars

\* the player has just lost hearts for the second time at least
C28_Witness ==
    /\ pc = "Player"
    /\ last_call.op = "Player.take_damage"
    /\ tick_time = 0
    /\ player.current_hearts <= MAX_HEARTS - 2
    /\ player.invincible_timer = 1000

\* C29: in every state of a session, enemies_defeated plus the number of live
\* enemies is the number of enemies spawned at setup (spawn_count in the
\* session's world) and exp is 10 times enemies_defeated; within one session
\* no enemy joins the live set, and an enemy leaves it only in a frame in
\* which player_attack fired, the enemy being vulnerable and its health at
\* most the player's attack.
C29_EnemyAccounting ==
    /\ [](/\ stats.enemies_defeated + Cardinality(DOMAIN enemies) = spawn_count
          /\ stats.exp = 10 * stats.enemies_defeated)
    /\ [][session' = session =>
            /\ DOMAIN enemies' \subseteq DOMAIN enemies
            /\ \A id \in DOMAIN enemies \ DOMAIN enemies' :
                 /\ since_attack' = 0
                 /\ ~enemies[id].invincible
                 /\ enemies[id].health <= stats.attack]_vars

\* some enemies were killed and one is still alive
C29_Witness ==
    /\ pc = "run"
    /\ game_state = "playing"
    /\ stats.enemies_defeated = 4
    /\ Cardinality(DOMAIN enemies) = 1
    /\ stats.exp = 40

\* C30: in a session with the default configuration (5 enemies, 10 exp for a
\* kill, exp_to_level 100) level_up is never applied: in every state level
\* is 1, attack is 10, defense is 5, exp_to_level is 100 and exp is at most
\* 50.
C30_NoLevelUpInSession ==
    /\ stats.level = 1
    /\ stats.attack = 10
    /\ stats.defense = 5
    /\ stats.exp_to_level = 100
    /\ stats.exp <= 50

\* the last of the five enemies was killed: exp has reached its maximum
C30_Witness ==
    /\ pc = "run"
    /\ game_state = "victory"
    /\ enemies = <<>>
    /\ stats.enemies_defeated = spawn_count
    /\ stats.exp = 50

====
